---- MODULE Spec2Model ----
(***************************************************************************)
(* DTMF power switch (B. Ratoff): a single-threaded Arduino sketch that    *)
(* polls a DTMF decoder, switches two relays on accepted digits, answers   *)
(* in Morse under PTT, identifies the station and turns timed relays off.  *)
(*                                                                         *)
(* The model follows the Digiwire build of the sketch (the file with the   *)
(* relayOn(r,p) / sendVcc functions).  One step of the model is one run of *)
(* loop(), 1 ms after the previous run returned, or a stretch of such runs *)
(* in which the decoder is silent and no run does more than poll and       *)
(* re-arm its checks.  The sketch is run-to-completion, every delay()      *)
(* inside a transmission advances the millisecond counter within the step. *)
(* The older sketch (DTMFPowerSwitch.ino, the definitions ending in Ino)   *)
(* does not sleep: its next run starts in the millisecond the last one     *)
(* returned.                                                               *)
(*                                                                         *)
(* Time.  millis() is a 32-bit unsigned counter.  The model keeps the      *)
(* unwrapped time as three limbs <<epoch, hi, lo>> (hi, lo are 16 bit) and *)
(* the program only ever sees the low 32 bits <<hi, lo>>; every deadline   *)
(* of the program is such a 32-bit pair and all deadline arithmetic is     *)
(* done modulo 2^32.                                                       *)
(***************************************************************************)
EXTENDS Integers, Sequences, FiniteSets, TLC

VARIABLES
    clock,          \* unwrapped time at which the last run of loop() returned, <<epoch, hi, lo>>
    tickAt,         \* unwrapped time at which the last run of loop() started
    span,           \* number of runs of loop() the last step stands for
    timeNow,        \* loop(): timeNow of the last run, the low 32 bits of tickAt
    nextDTMF,       \* unsigned long nextDTMF
    nextCmdTimeout, \* unsigned long nextCmdTimeout
    nextID,         \* unsigned long nextID
    nextRelay,      \* unsigned long nextRelay[numRelays]
    relayState,     \* uint8_t relayState[numRelays]
    stayOn,         \* bool stayOn[numRelays]
    pin,            \* level last written to relayPin[r]
    pttPin,         \* level last written to PTT
    tonePin,        \* 1 while tone() is running on tonePin
    dtmfKey,        \* char dtmfKey
    waitForSpace,   \* bool waitForSpace
    idNeeded,       \* bool idNeeded
    cmdActive,      \* bool cmdActive
    key,            \* raw decoder reading of the most recent poll (0 = silence)
    polled,         \* the last run called checkDTMF
    retVal,         \* what checkDTMF returned in the last run (FALSE if not polled)
    tx,             \* what the last run did on the pins, in order
    armed,          \* per relay: unwrapped time at which nextRelay[r] was last armed
    lastKey,        \* the key processKey dispatched last (0: none yet)
    heldPolls,      \* number of polls the latest key press has been heard for
    keyedAt,        \* unwrapped time at which pttDown() last re-armed nextID
    idDue,          \* the last run found the ID deadline due
    cmdTimedOut,    \* the last run announced the command timeout (toMsg)
    idSent,         \* the last run's ID check transmitted idMsg
    autoOff,        \* the relays the last run's scan turned off
    ticks,          \* number of steps so far
    bigGaps,        \* number of long idle stretches so far
    presses         \* number of key presses so far

vars == <<clock, tickAt, timeNow, nextDTMF, nextCmdTimeout, nextID, nextRelay, relayState,
          stayOn, pin, pttPin, tonePin, dtmfKey, waitForSpace, idNeeded, cmdActive,
          key, polled, retVal, tx, armed, lastKey, heldPolls, keyedAt, idDue,
          idSent, autoOff, cmdTimedOut,
          span, ticks, bigGaps, presses>>

----------------------------------------------------------------------------
(* Bounds of the model *)

MaxTicks == 11
MaxBigGaps == 3
MaxPresses == 2

----------------------------------------------------------------------------
(* Program constants *)

CMD_PERIOD == 60000
DTMF_PERIOD == 100
RELAY_PERIOD == 300000
ID_PERIOD == 30000
LOW == 0
HIGH == 1
numRelays == 2
Relays == 0 .. (numRelays - 1)
onState == [r \in Relays |-> LOW]

----------------------------------------------------------------------------
(* 32-bit unsigned arithmetic on <<hi, lo>> pairs of 16-bit limbs *)

W16 == 256 * 256

\* the 32-bit value of a number below 2^31
U32(n) == <<n \div W16, n % W16>>

\* unsigned long + unsigned long constant, modulo 2^32
Add32(a, n) ==
    LET lo == a[2] + (n % W16)
        hi == a[1] + (n \div W16) + (lo \div W16)
    IN  <<hi % W16, lo % W16>>

\* unsigned long - unsigned long, modulo 2^32
Sub32(a, b) ==
    LET lo == a[2] - b[2]
        br == IF lo < 0 THEN 1 ELSE 0
        hi == a[1] - b[1] - br
    IN  <<(hi + W16) % W16, (lo + W16) % W16>>

\* (long)x < 0 for a 32-bit x: the top bit is set
IsNegative(x) == x[1] >= W16 \div 2

\* plain comparison of two unsigned longs
Less32(a, b) == a[1] < b[1] \/ (a[1] = b[1] /\ a[2] < b[2])

\* the due-ness test written as a plain unsigned comparison
DuePlain(deadline, now) == Less32(deadline, now)

\* the due-ness test of loop(): (long)(deadline - now) < 0
Due(deadline, now) == IsNegative(Sub32(deadline, now))

\* the number an unsigned long below 2^31 holds
Int32(x) == x[1] * W16 + x[2]

\* unwrapped time plus n milliseconds (n below 2^31)
AddT(t, n) ==
    LET lo == t[3] + (n % W16)
        hi == t[2] + (n \div W16) + (lo \div W16)
    IN  <<t[1] + (hi \div W16), hi % W16, lo % W16>>

\* what millis() returns at unwrapped time t
Millis(t) == <<t[2], t[3]>>

\* order on unwrapped times
LessT(a, b) ==
    \/ a[1] < b[1]
    \/ a[1] = b[1] /\ a[2] < b[2]
    \/ a[1] = b[1] /\ a[2] = b[2] /\ a[3] < b[3]

LeqT(a, b) == a = b \/ LessT(a, b)

----------------------------------------------------------------------------
(* Characters: char values are their ASCII codes *)

Ascii == << " ", "!", "dq", "#", "$", "%", "&", "'", "(", ")", "*", "+", ",", "-", ".", "/",
            "0", "1", "2", "3", "4", "5", "6", "7", "8", "9", ":", ";", "<", "=", ">", "?",
            "@", "A", "B", "C", "D", "E", "F", "G", "H", "I", "J", "K", "L", "M", "N", "O",
            "P", "Q", "R", "S", "T", "U", "V", "W", "X", "Y", "Z" >>

OrdTable == [c \in {Ascii[i] : i \in DOMAIN Ascii} |->
                31 + (CHOOSE i \in DOMAIN Ascii : Ascii[i] = c)]

Ord(c) == OrdTable[c]

Str(s) == [i \in DOMAIN s |-> Ord(s[i])]

toMsg == Str(<<"C", "T", "O">>)
onMsg == Str(<<"D", "O", "W", "N">>)
offMsg == Str(<<"U", "P">>)
perMsg == Str(<<"O", "F", "F">>)
idMsg == Str(<<"N", "4", "B", "R", "F", "/", "R", "C">>)
vccMsg == Str(<<"V", "C", "C", " ">>)

----------------------------------------------------------------------------
(* The Morse table.  cwtable.h is not part of the available sources: the  *)
(* table holds the International Morse patterns, a space is a word break  *)
(* and '-' is the gap-only marker.                                         *)

DIT == "dit"
DAH == "dah"
WB == "wb"

Pattern(c) ==
    CASE c = "A" -> <<DIT, DAH>>
      [] c = "B" -> <<DAH, DIT, DIT, DIT>>
      [] c = "C" -> <<DAH, DIT, DAH, DIT>>
      [] c = "D" -> <<DAH, DIT, DIT>>
      [] c = "E" -> <<DIT>>
      [] c = "F" -> <<DIT, DIT, DAH, DIT>>
      [] c = "G" -> <<DAH, DAH, DIT>>
      [] c = "H" -> <<DIT, DIT, DIT, DIT>>
      [] c = "I" -> <<DIT, DIT>>
      [] c = "J" -> <<DIT, DAH, DAH, DAH>>
      [] c = "K" -> <<DAH, DIT, DAH>>
      [] c = "L" -> <<DIT, DAH, DIT, DIT>>
      [] c = "M" -> <<DAH, DAH>>
      [] c = "N" -> <<DAH, DIT>>
      [] c = "O" -> <<DAH, DAH, DAH>>
      [] c = "P" -> <<DIT, DAH, DAH, DIT>>
      [] c = "Q" -> <<DAH, DAH, DIT, DAH>>
      [] c = "R" -> <<DIT, DAH, DIT>>
      [] c = "S" -> <<DIT, DIT, DIT>>
      [] c = "T" -> <<DAH>>
      [] c = "U" -> <<DIT, DIT, DAH>>
      [] c = "V" -> <<DIT, DIT, DIT, DAH>>
      [] c = "W" -> <<DIT, DAH, DAH>>
      [] c = "X" -> <<DAH, DIT, DIT, DAH>>
      [] c = "Y" -> <<DAH, DIT, DAH, DAH>>
      [] c = "Z" -> <<DAH, DAH, DIT, DIT>>
      [] c = "0" -> <<DAH, DAH, DAH, DAH, DAH>>
      [] c = "1" -> <<DIT, DAH, DAH, DAH, DAH>>
      [] c = "2" -> <<DIT, DIT, DAH, DAH, DAH>>
      [] c = "3" -> <<DIT, DIT, DIT, DAH, DAH>>
      [] c = "4" -> <<DIT, DIT, DIT, DIT, DAH>>
      [] c = "5" -> <<DIT, DIT, DIT, DIT, DIT>>
      [] c = "6" -> <<DAH, DIT, DIT, DIT, DIT>>
      [] c = "7" -> <<DAH, DAH, DIT, DIT, DIT>>
      [] c = "8" -> <<DAH, DAH, DAH, DIT, DIT>>
      [] c = "9" -> <<DAH, DAH, DAH, DAH, DIT>>
      [] c = "/" -> <<DAH, DIT, DIT, DAH, DIT>>
      [] c = "?" -> <<DIT, DIT, DAH, DAH, DIT, DIT>>
      [] c = " " -> <<WB>>
      [] OTHER -> <<>>

\* the characters that have an entry in chtable
chtable ==
    { Ord(Ascii[i]) : i \in { j \in DOMAIN Ascii :
                               Pattern(Ascii[j]) # <<>> \/ Ascii[j] = "-" } }

\* the elements sendElements() plays for character code c
Elements(c) == IF c \in chtable THEN Pattern(Ascii[c - 31]) ELSE <<>>

----------------------------------------------------------------------------
(* The transmitter.  A handler is an operator from machine state to        *)
(* machine state; the machine state s is the record of the program's       *)
(* variables during one run of loop().  s.tx lists, in order, the pin      *)
(* writes, delays and characters of the run; a character stands for the    *)
(* pulses CharPulses gives for it.                                         *)

cspeed == 2

EvPtt(v) == <<"ptt", v>>
EvTone(v) == <<"tone", v>>
EvDelay(n) == <<"delay", n>>
EvChar(c) == <<"char", c>>
EvRelay(r, v) == <<"relay", r, v>>

dah == <<EvTone(1), EvDelay(385 \div cspeed), EvTone(0), EvDelay(90 \div cspeed)>>
dit == <<EvTone(1), EvDelay(125 \div cspeed), EvTone(0), EvDelay(100 \div cspeed)>>
wordBreak == <<EvTone(0), EvDelay(850 \div cspeed)>>
CharBreak == <<EvTone(0), EvDelay(165 \div cspeed)>>

RECURSIVE sendElements(_)
sendElements(els) ==
    IF els = <<>> THEN <<>>
    ELSE (CASE Head(els) = DIT -> dit
            [] Head(els) = DAH -> dah
            [] Head(els) = WB -> wordBreak
            [] OTHER -> <<>>) \o sendElements(Tail(els))

\* the pulses of sendChar(c)
CharPulses(c) ==
    (IF c = Ord("-") /\ c \in chtable THEN CharBreak
     ELSE IF c \in chtable THEN sendElements(Elements(c))
     ELSE <<>>)
    \o (IF c # Ord(" ") /\ c # Ord("-") THEN CharBreak ELSE <<>>)

RECURSIVE Duration(_)
Duration(evs) ==
    IF evs = <<>> THEN 0
    ELSE (IF Head(evs)[1] = "delay" THEN Head(evs)[2] ELSE 0) + Duration(Tail(evs))

\* the level of the tone pin after evs, t before them
RECURSIVE LastTone(_, _)
LastTone(evs, t) ==
    IF evs = <<>> THEN t
    ELSE LastTone(Tail(evs), IF Head(evs)[1] = "tone" THEN Head(evs)[2] ELSE t)

\* sendChar per character code, tabulated: how long it takes and whether it
\* touches the tone pin (every pulse train ends with noTone)
Chars == 0 .. 127
CharTime == [c \in Chars |-> Duration(CharPulses(c))]
CharTone == [c \in Chars |-> LastTone(CharPulses(c), HIGH) = LOW]

delay(s, n) ==
    [s EXCEPT !.clock = AddT(@, n), !.tx = Append(@, EvDelay(n))]

sendChar(s, c) ==
    [s EXCEPT !.clock = AddT(@, CharTime[c]),
              !.tone = IF CharTone[c] THEN LOW ELSE @,
              !.tx = Append(@, EvChar(c))]

pttDown(s) ==
    LET s1 == delay([s EXCEPT !.ptt = HIGH, !.tx = Append(@, EvPtt(HIGH))], 400)
    IN  [s1 EXCEPT !.idNeeded = TRUE,
                   !.nextID = Add32(Millis(s1.clock), ID_PERIOD),
                   !.keyedAt = s1.clock]

\* pttUp holding a settle time before it unkeys
pttUpSettled(s) ==
    LET s1 == delay(s, 400)
    IN  [s1 EXCEPT !.ptt = LOW, !.tx = Append(@, EvPtt(LOW))]

pttUp(s) == [s EXCEPT !.ptt = LOW, !.tx = Append(@, EvPtt(LOW))]

RECURSIVE sendString(_, _)
sendString(s, message) ==
    IF message = <<>> THEN s
    ELSE LET j == Head(message)
             c == IF j > Ord("Z") THEN j - Ord(" ") ELSE j
         IN  sendString(sendChar(s, c), Tail(message))

\* SendMorse closing every message with a word break
SendMorseWordBreak(s, message, prefix) ==
    LET s1 == pttDown(s)
        s2 == IF prefix # 0 THEN sendChar(sendChar(s1, prefix), Ord(" ")) ELSE s1
    IN  pttUp(sendChar(sendString(s2, message), Ord(" ")))

SendMorse(s, message, prefix) ==
    LET s1 == pttDown(s)
        s2 == IF prefix # 0 THEN sendChar(sendChar(s1, prefix), Ord(" ")) ELSE s1
    IN  pttUp(sendString(s2, message))

----------------------------------------------------------------------------
(* Relays *)

Not(x) == IF x = 0 THEN 1 ELSE 0

\* the relay write that never reaches the pin
digitalWriteRelayLost(s, r, v) ==
    [s EXCEPT !.tx = Append(@, EvRelay(r, v))]

digitalWriteRelay(s, r, v) ==
    [s EXCEPT !.pin[r] = v, !.tx = Append(@, EvRelay(r, v))]

\* relayOff driving the pin to the on level
relayOffToOnLevel(s, r) ==
    LET s1 == digitalWriteRelay(s, r, onState[r])
        s2 == SendMorse(s1, offMsg, r + Ord("1"))
    IN  [s2 EXCEPT !.relayState[r] = onState[r]]

relayOff(s, r) ==
    LET s1 == digitalWriteRelay(s, r, Not(onState[r]))
        s2 == SendMorse(s1, offMsg, r + Ord("1"))
    IN  [s2 EXCEPT !.relayState[r] = Not(onState[r])]

\* relayOn naming the relay by its index instead of its number
relayOnZeroBased(s, r, p) ==
    LET s1 == digitalWriteRelay(s, r, onState[r])
        s2 == IF p THEN SendMorse(s1, perMsg, r + Ord("0"))
                   ELSE SendMorse(s1, onMsg, r + Ord("0"))
    IN  [s2 EXCEPT !.relayState[r] = onState[r]]

\* relayOn acknowledging both modes with the same message
relayOnOneMsg(s, r, p) ==
    LET s1 == digitalWriteRelay(s, r, onState[r])
        s2 == SendMorse(s1, onMsg, r + Ord("1"))
    IN  [s2 EXCEPT !.relayState[r] = onState[r]]

relayOn(s, r, p) ==
    LET s1 == digitalWriteRelay(s, r, onState[r])
        s2 == IF p THEN SendMorse(s1, perMsg, r + Ord("1"))
                   ELSE SendMorse(s1, onMsg, r + Ord("1"))
    IN  [s2 EXCEPT !.relayState[r] = onState[r]]

\* the report without the pttUp() after the digits
sendVccKeyed(s, adc) ==
    LET s0 == delay(s, 100)
        vcc == 11830 \div adc
        s1 == SendMorse(s0, vccMsg, 0)
        s2 == pttDown(s1)
        s3 == sendChar(s2, (vcc \div 10) + Ord("0"))
    IN  sendChar(s3, (vcc % 10) + Ord("0"))

\* readVcc() with the ADC returning adc, then the report
sendVcc(s, adc) ==
    LET s0 == delay(s, 100)
        vcc == 11830 \div adc
        s1 == SendMorse(s0, vccMsg, 0)
        s2 == pttDown(s1)
        s3 == sendChar(s2, (vcc \div 10) + Ord("0"))
        s4 == sendChar(s3, (vcc % 10) + Ord("0"))
    IN  pttUp(s4)

\* timedOn with the hold flag of the case below it
timedOnHeld(s, r) ==
    LET s1 == relayOn(s, r, FALSE)
    IN  [s1 EXCEPT !.stayOn[r] = TRUE,
                   !.nextRelay[r] = Add32(Millis(s1.clock), RELAY_PERIOD),
                   !.armed[r] = s1.clock]

\* case '2' / '5': on for the preconfigured time
timedOn(s, r) ==
    LET s1 == relayOn(s, r, FALSE)
    IN  [s1 EXCEPT !.stayOn[r] = FALSE,
                   !.nextRelay[r] = Add32(Millis(s1.clock), RELAY_PERIOD),
                   !.armed[r] = s1.clock]

\* the held case leaving the hold flag as it was
heldOnNoFlag(s, r) == relayOn(s, r, TRUE)

\* case '3' / '6': on until turned off by command
heldOn(s, r) == [relayOn(s, r, TRUE) EXCEPT !.stayOn[r] = TRUE]

\* the default case running on into the relay-off case
unknownKeyFallsThrough(s) ==
    relayOff(pttUp(sendChar(sendChar(pttDown(s), s.dtmfKey), Ord("?"))), 0)

\* default: send the key followed by '?'
unknownKey(s) ==
    pttUp(sendChar(sendChar(pttDown(s), s.dtmfKey), Ord("?")))

\* processKey without the zap of the key
processKeyKeepsKey(s, adc) ==
    LET k == s.dtmfKey
        s0 == delay(s, 500)
        s1 == IF k = 0 THEN s
              ELSE CASE k = Ord("1") -> relayOff(s0, 0)
                     [] k = Ord("2") -> timedOn(s0, 0)
                     [] k = Ord("3") -> heldOn(s0, 0)
                     [] k = Ord("4") -> relayOff(s0, 1)
                     [] k = Ord("5") -> timedOn(s0, 1)
                     [] k = Ord("6") -> heldOn(s0, 1)
                     [] k = Ord("B") -> sendVcc(s0, adc)
                     [] OTHER -> unknownKey(s0)
    IN  [s1 EXCEPT !.lastKey = IF k = 0 THEN @ ELSE k]

processKey(s, adc) ==
    LET k == s.dtmfKey
        s0 == delay(s, 500)
        s1 == IF k = 0 THEN s
              ELSE CASE k = Ord("1") -> relayOff(s0, 0)
                     [] k = Ord("2") -> timedOn(s0, 0)
                     [] k = Ord("3") -> heldOn(s0, 0)
                     [] k = Ord("4") -> relayOff(s0, 1)
                     [] k = Ord("5") -> timedOn(s0, 1)
                     [] k = Ord("6") -> heldOn(s0, 1)
                     [] k = Ord("B") -> sendVcc(s0, adc)
                     [] OTHER -> unknownKey(s0)
    IN  [s1 EXCEPT !.dtmfKey = 0, !.lastKey = IF k = 0 THEN @ ELSE k]

----------------------------------------------------------------------------
(* The key edge detector.  k is what DTMF.procSample() returns. *)

\* checkDTMF reporting the key as soon as it is heard
checkDTMFOnPress(s, k) ==
    IF s.waitForSpace
    THEN IF k = 0
         THEN [s EXCEPT !.waitForSpace = FALSE, !.retVal = FALSE]
         ELSE [s EXCEPT !.retVal = FALSE]
    ELSE IF k # 0
         THEN [s EXCEPT !.dtmfKey = k, !.waitForSpace = TRUE, !.retVal = TRUE]
         ELSE [s EXCEPT !.retVal = FALSE]

\* the detector wanting the key heard on two polls before it accepts it
checkDTMFDebounced(s, k) ==
    IF s.waitForSpace
    THEN IF k = 0
         THEN [s EXCEPT !.waitForSpace = FALSE,
                        !.retVal = (s.dtmfKey # 0 /\ s.heldPolls > 1)]
         ELSE [s EXCEPT !.retVal = FALSE]
    ELSE IF k # 0
         THEN [s EXCEPT !.dtmfKey = k, !.waitForSpace = TRUE, !.retVal = FALSE]
         ELSE [s EXCEPT !.retVal = FALSE]

\* the detector saving whatever symbol it hears while the key is held
checkDTMFRelatch(s, k) ==
    IF s.waitForSpace
    THEN IF k = 0
         THEN [s EXCEPT !.waitForSpace = FALSE, !.retVal = (s.dtmfKey # 0)]
         ELSE [s EXCEPT !.dtmfKey = k, !.retVal = FALSE]
    ELSE IF k # 0
         THEN [s EXCEPT !.dtmfKey = k, !.waitForSpace = TRUE, !.retVal = FALSE]
         ELSE [s EXCEPT !.retVal = FALSE]

checkDTMF(s, k) ==
    IF s.waitForSpace
    THEN IF k = 0
         THEN [s EXCEPT !.waitForSpace = FALSE, !.retVal = (s.dtmfKey # 0)]
         ELSE [s EXCEPT !.retVal = FALSE]
    ELSE IF k # 0
         THEN [s EXCEPT !.dtmfKey = k, !.waitForSpace = TRUE, !.retVal = FALSE]
         ELSE [s EXCEPT !.retVal = FALSE]

----------------------------------------------------------------------------
(* loop() *)

pollStep(s, now, k, adc) ==
    IF Due(s.nextDTMF, now)
    THEN LET c == checkDTMF(s, k)
             d == IF c.retVal THEN processKey(c, adc) ELSE c
         IN  [d EXCEPT !.nextDTMF = Add32(now, DTMF_PERIOD), !.polled = TRUE, !.key = k,
                       !.heldPolls = IF k = 0 THEN @ ELSE IF s.key = 0 THEN 1 ELSE @ + 1]
    ELSE [s EXCEPT !.polled = FALSE, !.retVal = FALSE]

cmdStep(s, now) ==
    IF s.cmdActive /\ Due(s.nextCmdTimeout, now)
    THEN [SendMorse(s, toMsg, 0) EXCEPT !.cmdActive = FALSE, !.cmdTimedOut = TRUE]
    ELSE [s EXCEPT !.cmdTimedOut = FALSE]

\* the ID check re-arming from the deadline that expired
idStepOnGrid(s, now) ==
    IF Due(s.nextID, now)
    THEN LET s1 == IF s.idNeeded
                   THEN [SendMorse(s, idMsg, 0) EXCEPT !.idNeeded = FALSE, !.idSent = TRUE]
                   ELSE [s EXCEPT !.idSent = FALSE]
         IN  [s1 EXCEPT !.nextID = Add32(s.nextID, ID_PERIOD), !.idDue = TRUE]
    ELSE [s EXCEPT !.idDue = FALSE, !.idSent = FALSE]

\* the ID check clearing the flag before it transmits
idStepClearsFirst(s, now) ==
    IF Due(s.nextID, now)
    THEN LET s1 == IF s.idNeeded
                   THEN [SendMorse([s EXCEPT !.idNeeded = FALSE], idMsg, 0)
                             EXCEPT !.idSent = TRUE]
                   ELSE [s EXCEPT !.idSent = FALSE]
         IN  [s1 EXCEPT !.nextID = Add32(now, ID_PERIOD), !.idDue = TRUE]
    ELSE [s EXCEPT !.idDue = FALSE, !.idSent = FALSE]

\* the ID check that also fires at the deadline itself
idStepAtDeadline(s, now) ==
    IF Due(s.nextID, now) \/ s.nextID = now
    THEN LET s1 == IF s.idNeeded
                   THEN [SendMorse(s, idMsg, 0) EXCEPT !.idNeeded = FALSE, !.idSent = TRUE]
                   ELSE [s EXCEPT !.idSent = FALSE]
         IN  [s1 EXCEPT !.nextID = Add32(now, ID_PERIOD), !.idDue = TRUE]
    ELSE [s EXCEPT !.idDue = FALSE, !.idSent = FALSE]

idStep(s, now) ==
    IF Due(s.nextID, now)
    THEN LET s1 == IF s.idNeeded
                   THEN [SendMorse(s, idMsg, 0) EXCEPT !.idNeeded = FALSE, !.idSent = TRUE]
                   ELSE [s EXCEPT !.idSent = FALSE]
         IN  [s1 EXCEPT !.nextID = Add32(now, ID_PERIOD), !.idDue = TRUE]
    ELSE [s EXCEPT !.idDue = FALSE, !.idSent = FALSE]

\* the scan without the test of the hold flag
RECURSIVE relayScanNoHold(_, _, _)
relayScanNoHold(s, now, i) ==
    IF i >= numRelays THEN s
    ELSE IF s.relayState[i] = onState[i] /\ Due(s.nextRelay[i], now)
         THEN relayScanNoHold([relayOff(s, i) EXCEPT !.autoOff = @ \cup {i}], now, i + 1)
         ELSE relayScanNoHold(s, now, i + 1)

RECURSIVE relayScan(_, _, _)
relayScan(s, now, i) ==
    IF i >= numRelays THEN s
    ELSE IF s.relayState[i] = onState[i] /\ ~s.stayOn[i] /\ Due(s.nextRelay[i], now)
         THEN relayScan([relayOff(s, i) EXCEPT !.autoOff = @ \cup {i}], now, i + 1)
         ELSE relayScan(s, now, i + 1)

\* one run of loop() that starts at unwrapped time t0
loop(s, t0, k, adc) ==
    LET now == Millis(t0)
        s0 == [s EXCEPT !.clock = t0, !.tx = <<>>, !.autoOff = {}]
    IN  relayScan(idStep(cmdStep(pollStep(s0, now, k, adc), now), now), now, 0)

\* Of the runs of loop() in n successive milliseconds, the last of them at
\* now, the start of the last one that finds deadline due, when every run that
\* finds it due re-arms it period ms after its own start: the first such run
\* is the first one after the deadline, and then every (period + 1)-th.  Only
\* used when the run at now is after the deadline.
LastDue(deadline, now, n, period) ==
    LET late == Int32(Sub32(Sub32(now, deadline), U32(1)))
        b == IF late < n - 1 THEN late ELSE n - 1
    IN  Sub32(now, U32(b % (period + 1)))

\* The runs of loop() in the milliseconds from first to d after the last run
\* returned, in which the decoder is silent, no key is released, no ID is owed
\* when its check comes due and no timeout or relay deadline comes due: each
\* run that polls re-arms nextDTMF, each run that finds the ID check due
\* re-arms nextID, and none of them takes any time.  first is the gap before
\* the first of them, idPeriod the sketch's ID_PERIOD.
idle(s, first, d, idPeriod) ==
    LET t == AddT(s.clock, d)
        now == Millis(t)
        n == d - first + 1
        polls == Due(s.nextDTMF, now)
        lastPoll == LastDue(s.nextDTMF, now, n, DTMF_PERIOD)
        ids == Due(s.nextID, now)
        lastId == LastDue(s.nextID, now, n, idPeriod)
    IN  [s EXCEPT !.clock = t, !.tx = <<>>, !.autoOff = {},
                  !.nextDTMF = IF polls THEN Add32(lastPoll, DTMF_PERIOD) ELSE @,
                  !.polled = polls /\ lastPoll = now,
                  !.key = IF polls THEN 0 ELSE @,
                  !.retVal = FALSE,
                  !.cmdTimedOut = FALSE,
                  !.nextID = IF ids THEN Add32(lastId, idPeriod) ELSE @,
                  !.idDue = ids /\ lastId = now,
                  !.idSent = FALSE]

----------------------------------------------------------------------------
(* Inputs *)

\* sleep_mode() returns at the next timer interrupt: loop() runs again 1 ms
\* after it returned
RunGap == 1

\* a long idle stretch, below 2^31 ms: two of them end 2^18 ms before the
\* counter wraps
BigGap == (W16 \div 2 - 2) * W16

\* the pause between two key strokes
StrokeGap == ID_PERIOD \div 3

\* decoder readings other than silence
Keys == {Ord("1"), Ord("2"), Ord("3"), Ord("5"), Ord("B"), Ord("C")}

\* analogRead() of the 1.1 V reference: 5.0 V and 3.3 V supplies
AdcReadings == {236, 358}

\* millis() when setup() runs
BootMs == {0}

----------------------------------------------------------------------------
(* The state machine *)

Machine ==
    [clock |-> clock, nextDTMF |-> nextDTMF, nextCmdTimeout |-> nextCmdTimeout,
     nextID |-> nextID, nextRelay |-> nextRelay, relayState |-> relayState,
     stayOn |-> stayOn, pin |-> pin, ptt |-> pttPin, tone |-> tonePin,
     dtmfKey |-> dtmfKey, waitForSpace |-> waitForSpace, idNeeded |-> idNeeded,
     cmdActive |-> cmdActive, key |-> key, polled |-> polled, retVal |-> retVal,
     tx |-> tx, armed |-> armed, lastKey |-> lastKey, heldPolls |-> heldPolls,
     keyedAt |-> keyedAt, idDue |-> idDue,
     idSent |-> idSent, autoOff |-> autoOff, cmdTimedOut |-> cmdTimedOut]

\* setup()
Init ==
    /\ clock \in {<<0, 0, b>> : b \in BootMs}
    /\ tickAt = clock
    /\ span = 0
    /\ timeNow = Millis(clock)
    /\ nextDTMF = U32(0)
    /\ nextCmdTimeout = U32(0)
    /\ nextID = Millis(clock)
    /\ nextRelay = [r \in Relays |-> U32(0)]
    /\ relayState = [r \in Relays |-> Not(onState[r])]
    /\ stayOn = [r \in Relays |-> FALSE]
    /\ pin = [r \in Relays |-> Not(onState[r])]
    /\ pttPin = LOW
    /\ tonePin = LOW
    /\ dtmfKey = 0
    /\ waitForSpace = FALSE
    /\ idNeeded = TRUE
    /\ cmdActive = FALSE
    /\ key = 0
    /\ polled = FALSE
    /\ retVal = FALSE
    /\ tx = <<>>
    /\ armed = [r \in Relays |-> <<0, 0, 0>>]
    /\ lastKey = 0
    /\ heldPolls = 0
    /\ keyedAt = <<0, 0, 0>>
    /\ idDue = FALSE
    /\ idSent = FALSE
    /\ cmdTimedOut = FALSE
    /\ autoOff = {}
    /\ ticks = 0
    /\ bigGaps = 0
    /\ presses = 0

\* the ADC is read only when the key 'B' is dispatched
ReadsAdc(t0, k) ==
    Due(nextDTMF, Millis(t0)) /\ waitForSpace /\ k = 0 /\ dtmfKey = Ord("B")

\* the program's variables after a run of loop() that ended in machine state s
Commit(s) ==
    /\ clock' = s.clock
    /\ nextDTMF' = s.nextDTMF
    /\ nextCmdTimeout' = s.nextCmdTimeout
    /\ nextID' = s.nextID
    /\ nextRelay' = s.nextRelay
    /\ relayState' = s.relayState
    /\ stayOn' = s.stayOn
    /\ pin' = s.pin
    /\ pttPin' = s.ptt
    /\ tonePin' = s.tone
    /\ dtmfKey' = s.dtmfKey
    /\ waitForSpace' = s.waitForSpace
    /\ idNeeded' = s.idNeeded
    /\ cmdActive' = s.cmdActive
    /\ key' = s.key
    /\ polled' = s.polled
    /\ retVal' = s.retVal
    /\ tx' = s.tx
    /\ armed' = s.armed
    /\ lastKey' = s.lastKey
    /\ heldPolls' = s.heldPolls
    /\ keyedAt' = s.keyedAt
    /\ idDue' = s.idDue
    /\ idSent' = s.idSent
    /\ cmdTimedOut' = s.cmdTimedOut
    /\ autoOff' = s.autoOff

\* the run that starts after gap polls the decoder and hears a new key
Press(gap, k) ==
    Due(nextDTMF, Millis(AddT(clock, gap))) /\ ~waitForSpace /\ k # 0

\* relay r is on in timed mode
Timed(r) == relayState[r] = onState[r] /\ ~stayOn[r]

\* a run of loop() that starts at now transmits: it owes the ID at a due
\* check, closes a session or turns a relay off
Transmits(now) ==
    \/ idNeeded /\ Due(nextID, now)
    \/ cmdActive /\ Due(nextCmdTimeout, now)
    \/ \E r \in Relays : Timed(r) /\ Due(nextRelay[r], now)

\* a run of loop() that starts at now does more than return: it polls, or
\* finds the ID check due, or transmits
Acts(now) == Due(nextDTMF, now) \/ Due(nextID, now) \/ Transmits(now)

\* one run of loop(), gap ms after the previous one returned; k is the decoder
\* reading if the run polls, adc the ADC reading if it reports the voltage.
\* The runs that only return are taken in stretches, by Idle.
Tick(gap, k, adc) ==
    /\ ticks < MaxTicks
    /\ Acts(Millis(AddT(clock, gap)))
    /\ Press(gap, k) => presses < MaxPresses
    /\ ticks' = ticks + 1
    /\ bigGaps' = bigGaps
    /\ presses' = IF Press(gap, k) THEN presses + 1 ELSE presses
    /\ span' = 1
    /\ tickAt' = AddT(clock, gap)
    /\ timeNow' = Millis(AddT(clock, gap))
    /\ \E s \in {loop(Machine, AddT(clock, gap), k, adc)} : Commit(s)

\* what the decoder may report when the run that starts after gap polls it
Readings(gap) ==
    IF ~Due(nextDTMF, Millis(AddT(clock, gap))) THEN {0}
    ELSE IF waitForSpace THEN {0, dtmfKey, Ord("C")}
    ELSE Keys \cup {0}

AdcInputs(gap, k) ==
    IF ReadsAdc(AddT(clock, gap), k) THEN AdcReadings ELSE {236}

\* the time from the end of the last run to deadline, 0 if it is not ahead
Ahead(deadline) ==
    LET x == Sub32(deadline, Millis(clock))
    IN  IF IsNegative(x) THEN 0 ELSE Int32(x)

\* how long a stretch of silent runs may be taken to last: up to the run
\* before the next poll, ID check or relay deadline, the pause between two
\* key strokes, or a long idle stretch
Stretches ==
    ({Ahead(nextDTMF), Ahead(nextID), StrokeGap, BigGap}
        \cup {Ahead(nextRelay[r]) : r \in {q \in Relays : Timed(q)}}) \ {0}

\* d runs of loop() with the decoder silent in which no run transmits and, if
\* a key is pending, no run polls: the last of them starts d ms after the
\* last run returned
Idle(d) ==
    /\ ticks < MaxTicks
    /\ d = BigGap => bigGaps < MaxBigGaps
    /\ ~Transmits(Millis(AddT(clock, RunGap)))
    /\ ~Transmits(Millis(AddT(clock, d)))
    /\ waitForSpace => ~Due(nextDTMF, Millis(AddT(clock, d)))
    /\ ticks' = ticks + 1
    /\ bigGaps' = IF d = BigGap THEN bigGaps + 1 ELSE bigGaps
    /\ presses' = presses
    /\ span' = d
    /\ tickAt' = AddT(clock, d)
    /\ timeNow' = Millis(AddT(clock, d))
    /\ \E s \in {idle(Machine, RunGap, d, ID_PERIOD)} : Commit(s)

Next ==
    \/ \E k \in Readings(RunGap) : \E adc \in AdcInputs(RunGap, k) : Tick(RunGap, k, adc)
    \/ \E d \in Stretches : Idle(d)

Spec == Init /\ [][Next]_vars

----------------------------------------------------------------------------
(* The older sketch, DTMFPowerSwitch.ino.  It shares checkDTMF() and the    *)
(* Morse sender with the sketch above; its periods, messages, relay tables, *)
(* key map, keying delays and loop() differ and are modelled here.          *)

CMD_PERIOD_INO == 30000
RELAY_PERIOD_INO == 15000
ID_PERIOD_INO == 600000

onMsgIno == Str(<<"Q", "R", "T">>)
offMsgIno == Str(<<"Q", "R", "O">>)

onStateIno == [r \in Relays |-> IF r = 0 THEN LOW ELSE HIGH]
offStateIno == [r \in Relays |-> IF r = 0 THEN HIGH ELSE LOW]

\* sizeof(int) on the AVR parts the sketch is built for; relayPin holds two
\* uint8_t, so sizeof(relayPin) is 2
sizeofInt == 2
sizeofRelayPin == 2

\* uint8_t numRelays = sizeof(relayPin)/sizeof(int)
numRelaysIno == sizeofRelayPin \div sizeofInt

pttDownIno(s) ==
    LET s1 == delay(s, 1000)
        s2 == delay([s1 EXCEPT !.ptt = HIGH, !.tx = Append(@, EvPtt(HIGH))], 500)
    IN  [s2 EXCEPT !.idNeeded = TRUE]

pttUpIno(s) ==
    LET s1 == delay(s, 500)
    IN  [s1 EXCEPT !.ptt = LOW, !.tx = Append(@, EvPtt(LOW))]

SendMorseIno(s, message, prefix) ==
    LET s1 == pttDownIno(s)
        s2 == IF prefix # 0 THEN sendChar(sendChar(s1, prefix), Ord(" ")) ELSE s1
    IN  pttUpIno(sendString(s2, message))

relayOffIno(s, r) ==
    LET s1 == digitalWriteRelay(s, r, offStateIno[r])
        s2 == SendMorseIno(s1, offMsgIno, r + Ord("1"))
    IN  [s2 EXCEPT !.relayState[r] = offStateIno[r]]

relayOnIno(s, r) ==
    LET s1 == digitalWriteRelay(s, r, onStateIno[r])
        s2 == SendMorseIno(s1, onMsgIno, r + Ord("1"))
    IN  [s2 EXCEPT !.relayState[r] = onStateIno[r]]

\* case '1' and case '5' of processKey()
timedOnIno(s, r) ==
    LET s1 == relayOnIno(s, r)
    IN  [s1 EXCEPT !.stayOn[r] = FALSE,
                   !.nextRelay[r] = Add32(Millis(s1.clock), RELAY_PERIOD_INO),
                   !.armed[r] = s1.clock]

\* case '2' and case '6' of processKey()
heldOnIno(s, r) == [relayOnIno(s, r) EXCEPT !.stayOn[r] = TRUE]

\* default: send the key followed by '?'
unknownKeyIno(s) ==
    pttUpIno(sendChar(sendChar(pttDownIno(s), s.dtmfKey), Ord("?")))

processKeyIno(s) ==
    LET k == s.dtmfKey
        s1 == IF k = 0 THEN s
              ELSE CASE k = Ord("0") -> relayOffIno(s, 0)
                     [] k = Ord("1") -> timedOnIno(s, 0)
                     [] k = Ord("2") -> heldOnIno(s, 0)
                     [] k = Ord("4") -> relayOffIno(s, 1)
                     [] k = Ord("5") -> timedOnIno(s, 1)
                     [] k = Ord("6") -> heldOnIno(s, 1)
                     [] OTHER -> unknownKeyIno(s)
    IN  [s1 EXCEPT !.dtmfKey = 0, !.lastKey = IF k = 0 THEN @ ELSE k]

\* the poll of loop(): an accepted key opens or refreshes the command session
pollStepIno(s, now, k) ==
    IF Due(s.nextDTMF, now)
    THEN LET c == checkDTMF(s, k)
             d == IF c.retVal
                  THEN [processKeyIno(c) EXCEPT !.cmdActive = TRUE,
                                                !.nextCmdTimeout = Add32(now, CMD_PERIOD_INO)]
                  ELSE c
         IN  [d EXCEPT !.nextDTMF = Add32(now, DTMF_PERIOD),
                       !.polled = TRUE,
                       !.key = k,
                       !.heldPolls = IF k = 0 THEN @ ELSE IF s.key = 0 THEN 1 ELSE @ + 1]
    ELSE [s EXCEPT !.polled = FALSE, !.retVal = FALSE]

\* the timeout that leaves the session open
cmdStepInoStaysOpen(s, now) ==
    IF s.cmdActive /\ Due(s.nextCmdTimeout, now)
    THEN [SendMorseIno(s, toMsg, 0) EXCEPT !.cmdTimedOut = TRUE]
    ELSE [s EXCEPT !.cmdTimedOut = FALSE]

cmdStepIno(s, now) ==
    IF s.cmdActive /\ Due(s.nextCmdTimeout, now)
    THEN [SendMorseIno(s, toMsg, 0) EXCEPT !.cmdActive = FALSE, !.cmdTimedOut = TRUE]
    ELSE [s EXCEPT !.cmdTimedOut = FALSE]

idStepIno(s, now) ==
    IF Due(s.nextID, now)
    THEN LET s1 == IF s.idNeeded
                   THEN [SendMorseIno(s, idMsg, 0) EXCEPT !.idNeeded = FALSE, !.idSent = TRUE]
                   ELSE [s EXCEPT !.idSent = FALSE]
         IN  [s1 EXCEPT !.nextID = Add32(now, ID_PERIOD_INO), !.idDue = TRUE]
    ELSE [s EXCEPT !.idDue = FALSE, !.idSent = FALSE]

\* for(int i=0; i<numRelays; i++)
RECURSIVE relayScanIno(_, _, _)
relayScanIno(s, now, i) ==
    IF i >= numRelaysIno THEN s
    ELSE IF s.relayState[i] = onStateIno[i] /\ ~s.stayOn[i] /\ Due(s.nextRelay[i], now)
         THEN relayScanIno([relayOffIno(s, i) EXCEPT !.autoOff = @ \cup {i}], now, i + 1)
         ELSE relayScanIno(s, now, i + 1)

loopIno(s, t0, k) ==
    LET now == Millis(t0)
        s0 == [s EXCEPT !.clock = t0, !.tx = <<>>, !.autoOff = {}]
    IN  relayScanIno(idStepIno(cmdStepIno(pollStepIno(s0, now, k), now), now), now, 0)

KeysIno == {Ord("0"), Ord("1"), Ord("2"), Ord("5"), Ord("C")}

\* the static initialisers and setup(): the pin loop runs to numRelays
InitIno ==
    /\ clock \in {<<0, 0, b>> : b \in BootMs}
    /\ tickAt = clock
    /\ span = 0
    /\ timeNow = Millis(clock)
    /\ nextDTMF = U32(0)
    /\ nextCmdTimeout = U32(0)
    /\ nextID = Millis(clock)
    /\ nextRelay = [r \in Relays |-> U32(0)]
    /\ relayState = [r \in Relays |-> IF r = 0 THEN 1 ELSE 0]
    /\ stayOn = [r \in Relays |-> FALSE]
    /\ pin = [r \in Relays |-> IF r < numRelaysIno THEN offStateIno[r] ELSE LOW]
    /\ pttPin = LOW
    /\ tonePin = LOW
    /\ dtmfKey = 0
    /\ waitForSpace = FALSE
    /\ idNeeded = TRUE
    /\ cmdActive = FALSE
    /\ key = 0
    /\ polled = FALSE
    /\ retVal = FALSE
    /\ tx = <<>>
    /\ armed = [r \in Relays |-> <<0, 0, 0>>]
    /\ lastKey = 0
    /\ heldPolls = 0
    /\ keyedAt = <<0, 0, 0>>
    /\ idDue = FALSE
    /\ idSent = FALSE
    /\ cmdTimedOut = FALSE
    /\ autoOff = {}
    /\ ticks = 0
    /\ bigGaps = 0
    /\ presses = 0

\* relay r is on in timed mode
TimedIno(r) == relayState[r] = onStateIno[r] /\ ~stayOn[r]

\* a run of loop() that starts at now transmits; the scan looks at the relays
\* below numRelays only
TransmitsIno(now) ==
    \/ idNeeded /\ Due(nextID, now)
    \/ cmdActive /\ Due(nextCmdTimeout, now)
    \/ \E r \in Relays : r < numRelaysIno /\ TimedIno(r) /\ Due(nextRelay[r], now)

ActsIno(now) == Due(nextDTMF, now) \/ Due(nextID, now) \/ TransmitsIno(now)

\* The older sketch does not sleep, main() calls loop() again at once: the
\* next run starts in the millisecond in which the last one returned
RunGapIno == 0

\* the gaps before the next run that does more than return: it is the run
\* that starts at once or, when the runs of this millisecond find nothing to
\* do, the first run of the next millisecond
GapsIno == {RunGapIno, RunGapIno + 1}

\* one run of loop(), gap ms after the previous one returned; the runs of the
\* same millisecond before it found nothing due
TickIno(gap, k) ==
    /\ ticks < MaxTicks
    /\ ActsIno(Millis(AddT(clock, gap)))
    /\ gap > RunGapIno => ~ActsIno(Millis(AddT(clock, RunGapIno)))
    /\ Press(gap, k) => presses < MaxPresses
    /\ ticks' = ticks + 1
    /\ bigGaps' = bigGaps
    /\ presses' = IF Press(gap, k) THEN presses + 1 ELSE presses
    /\ span' = 1
    /\ tickAt' = AddT(clock, gap)
    /\ timeNow' = Millis(AddT(clock, gap))
    /\ \E s \in {loopIno(Machine, AddT(clock, gap), k)} : Commit(s)

ReadingsIno(gap) ==
    IF ~Due(nextDTMF, Millis(AddT(clock, gap))) THEN {0}
    ELSE IF waitForSpace THEN {0, dtmfKey}
    ELSE KeysIno \cup {0}

\* stretches of silent runs: up to the last run before the next poll, ID
\* check, command timeout or relay deadline, or the pause between two key
\* strokes
StretchesIno ==
    ({Ahead(nextDTMF), Ahead(nextID), StrokeGap}
        \cup (IF cmdActive THEN {Ahead(nextCmdTimeout)} ELSE {})
        \cup {Ahead(nextRelay[r]) : r \in {q \in Relays : TimedIno(q)}}) \ {0}

\* the runs of loop() from the millisecond in which the last run returned to
\* d ms later, with the decoder silent, in which no run transmits and, if a
\* key is pending, no run polls
IdleIno(d) ==
    /\ ticks < MaxTicks
    /\ ~TransmitsIno(Millis(AddT(clock, RunGapIno)))
    /\ ~TransmitsIno(Millis(AddT(clock, d)))
    /\ waitForSpace => ~Due(nextDTMF, Millis(AddT(clock, d)))
    /\ ticks' = ticks + 1
    /\ bigGaps' = bigGaps
    /\ presses' = presses
    /\ span' = d - RunGapIno + 1
    /\ tickAt' = AddT(clock, d)
    /\ timeNow' = Millis(AddT(clock, d))
    /\ \E s \in {idle(Machine, RunGapIno, d, ID_PERIOD_INO)} : Commit(s)

NextIno ==
    \/ \E gap \in GapsIno : \E k \in ReadingsIno(gap) : TickIno(gap, k)
    \/ \E d \in StretchesIno : IdleIno(d)

SpecIno == InitIno /\ [][NextIno]_vars

----------------------------------------------------------------------------
(* Properties *)

\* the digits of processKey that switch relay r on
TimedKey(r) == IF r = 0 THEN Ord("2") ELSE Ord("5")
HeldKey(r) == IF r = 0 THEN Ord("3") ELSE Ord("6")

IsOn(r) == relayState[r] = onState[r]

\* unwrapped time of the auto-off deadline armed last for relay r
Deadline(r) == AddT(armed[r], RELAY_PERIOD)

\* C1: in every run of loop() that polls the decoder, checkDTMF returns true
\* exactly when this poll hears silence and the poll before it heard a symbol:
\* once per press-and-release, on the first silent poll, never while the tone
\* is heard, whatever the number of polls the tone lasted.
C1_AcceptedOncePerRelease ==
    [][polled' => (retVal' <=> (key' = 0 /\ key # 0))]_vars

\* a key held for three polls and then released has just been accepted
C1_Witness == retVal /\ key = 0 /\ heldPolls >= 3

\* C2 as claimed: with a timed-on command of relay r the last key accepted,
\* relay r reads off at the end of every run of loop() whose timeNow is at
\* least RELAY_PERIOD after the moment the deadline was armed.
C2_OffAtPeriod ==
    \A r \in Relays :
        (lastKey = TimedKey(r) /\ LeqT(Deadline(r), tickAt)) => ~IsOn(r)

\* C2 amended: with a timed-on command of relay r the last key accepted, relay
\* r reads off at the end of every run of loop() whose timeNow is more than
\* RELAY_PERIOD after the moment the deadline was armed, also when the counter
\* wrapped in between (runs of loop() are less than 2^31 ms apart).
C2_OffAfterPeriod ==
    \A r \in Relays :
        (lastKey = TimedKey(r) /\ LessT(Deadline(r), tickAt)) => ~IsOn(r)

\* a timed relay was armed before the counter wrapped, its deadline lies after
\* the wrap and the scan of a later run has turned it off
C2_Witness ==
    \E r \in Relays :
        /\ lastKey = TimedKey(r)
        /\ armed[r][1] = 0 /\ Deadline(r)[1] = 1
        /\ LessT(Deadline(r), tickAt)
        /\ r \in autoOff /\ ~IsOn(r)

\* millisecond values a due-ness test is tried on: the ones the program holds and the
\* ends and the middle of the counter's range
Instants ==
    {timeNow, nextDTMF, nextCmdTimeout, nextID} \cup {nextRelay[r] : r \in Relays}
    \cup {U32(0), <<W16 - 1, W16 - 1>>, <<W16 \div 2, 0>>}

\* processKey dispatching the on-until-off digit of relay r now
Held(r) == processKey([Machine EXCEPT !.dtmfKey = HeldKey(r), !.tx = <<>>], 236)

\* C3: with an on-until-off command of relay r the last key accepted, relay r
\* is on at the end of every run of loop() and no scan has turned it off,
\* whatever time has passed and whatever nextRelay[r] holds; and in every
\* reachable state, once processKey has dispatched the on-until-off digit of
\* relay r, the scan at any instant leaves relay r on and held.
C3_HeldStaysOn ==
    \A r \in Relays :
        /\ lastKey = HeldKey(r) => (IsOn(r) /\ pin[r] = onState[r] /\ r \notin autoOff)
        /\ \A a \in Instants \cup {Add32(nextRelay[r], 1)} :
              LET t == relayScan([Held(r) EXCEPT !.autoOff = {}], a, 0)
              IN  /\ t.relayState[r] = onState[r] /\ t.pin[r] = onState[r]
                  /\ t.stayOn[r] /\ r \notin t.autoOff

\* a held relay is on after the counter wrapped although the stale deadline
\* in nextRelay reads as due
C3_Witness ==
    \E r \in Relays :
        /\ lastKey = HeldKey(r) /\ ~retVal
        /\ tickAt[1] = 1
        /\ Due(nextRelay[r], timeNow)
        /\ IsOn(r)

\* time the events evs take
RECURSIVE TxTime(_)
TxTime(evs) ==
    IF evs = <<>> THEN 0
    ELSE (CASE Head(evs)[1] = "delay" -> Head(evs)[2]
            [] Head(evs)[1] = "char" -> CharTime[Head(evs)[2]]
            [] OTHER -> 0) + TxTime(Tail(evs))

StartsWith(evs, pre) == Len(evs) >= Len(pre) /\ SubSeq(evs, 1, Len(pre)) = pre

\* what processKey does for digit '2': the pause, relay 0 to its on level and
\* the on-acknowledgment DOWN prefixed with '1'
OnAck0 ==
    <<EvDelay(500), EvRelay(0, onState[0]), EvPtt(HIGH), EvDelay(400),
      EvChar(Ord("1")), EvChar(Ord(" ")),
      EvChar(Ord("D")), EvChar(Ord("O")), EvChar(Ord("W")), EvChar(Ord("N")),
      EvPtt(LOW)>>

\* C4: a run of loop() that accepts digit '2' while relay 0 is off ends with
\* relay 0 on, not held, its deadline armed RELAY_PERIOD after the end of the
\* acknowledgment, and has sent the on-acknowledgment prefixed with '1'; with
\* no further key accepted the relay stays on up to the deadline and the scan
\* of the first run that starts after the deadline turns it off.
C4_DigitTwo ==
    [][/\ (retVal' /\ dtmfKey = Ord("2") /\ ~IsOn(0)) =>
            /\ IsOn(0)' /\ pin'[0] = onState[0] /\ stayOn'[0] = FALSE
            /\ StartsWith(tx', OnAck0)
            /\ nextRelay'[0] = Add32(Add32(timeNow', TxTime(OnAck0)), RELAY_PERIOD)
       /\ (lastKey = Ord("2") /\ ~retVal' /\ IsOn(0) /\ LessT(Deadline(0), tickAt')) =>
            (0 \in autoOff' /\ ~IsOn(0)')
       /\ (lastKey = Ord("2") /\ ~retVal' /\ IsOn(0) /\ LeqT(tickAt', Deadline(0))) =>
            IsOn(0)'
    ]_vars

\* digit '2' was the first key ever pressed and has just been accepted
C4_Witness ==
    /\ retVal /\ lastKey = Ord("2") /\ presses = 1
    /\ IsOn(0) /\ ~stayOn[0]
    /\ StartsWith(tx, OnAck0)

\* the decoder's symbols that processKey has no case for
Unmapped == {Ord("0"), Ord("7"), Ord("8"), Ord("9"), Ord("A"), Ord("C"), Ord("D"),
             Ord("*"), Ord("#")}

\* the pause, then the echoed digit and '?' under PTT
Echo(u) ==
    <<EvDelay(500), EvPtt(HIGH), EvDelay(400), EvChar(u), EvChar(Ord("?")), EvPtt(LOW)>>

\* C5: in every reachable state and for every digit u without a case,
\* processKey keys PTT, sends u and '?', releases PTT and leaves the pin level,
\* relayState, stayOn and nextRelay of every relay as they were; a run of
\* loop() that accepted such a digit starts with exactly that transmission.
C5_UnknownDigit ==
    /\ \A u \in Unmapped :
          LET s == processKey([Machine EXCEPT !.dtmfKey = u, !.tx = <<>>], 236)
          IN  /\ s.tx = Echo(u)
              /\ s.pin = pin /\ s.relayState = relayState
              /\ s.stayOn = stayOn /\ s.nextRelay = nextRelay
    /\ (retVal /\ lastKey \in Unmapped) => StartsWith(tx, Echo(lastKey))

\* digit 'C' has just been accepted while relay 0 was on
C5_Witness ==
    /\ retVal /\ lastKey = Ord("C")
    /\ StartsWith(tx, Echo(Ord("C")))
    /\ IsOn(0)

\* C8: a run of loop() that accepts a key, or turns a relay off, while an ID
\* is owed either sends the ID or leaves the ID check where it stood, so that
\* accepted keys and acknowledgments do not put the identification off.
C8_IdNotPostponed ==
    [][(idNeeded /\ (retVal' \/ autoOff' # {})) => (idSent' \/ nextID' = nextID)]_vars

\* the largest distance the signed test tells apart: 2^31 - 1
MaxDistance == (W16 \div 2 - 1) * W16 + (W16 - 1)

Distances == {0, 1, DTMF_PERIOD, ID_PERIOD, CMD_PERIOD, RELAY_PERIOD, MaxDistance}

\* a + d passes 2^32
Wraps(a, d) == Less32(Add32(a, d), a)

\* C6: for every instant a and distance d below 2^31, a deadline d after a is
\* not due at a, a deadline at a is due d > 0 later, also when a + d wrapped;
\* the plain unsigned comparison agrees with the test exactly on the pairs
\* that do not straddle the wrap.
C6_WrapSafeDue ==
    \A a \in Instants : \A d \in Distances :
        /\ ~Due(Add32(a, d), a)
        /\ d > 0 => Due(a, Add32(a, d))
        /\ d > 0 => /\ DuePlain(Add32(a, d), a) = Wraps(a, d)
                    /\ DuePlain(a, Add32(a, d)) = ~Wraps(a, d)

\* a timed relay armed before the wrap with its deadline after it, tested by a
\* later run before the wrap and left on
C6_Witness ==
    \E r \in Relays :
        /\ IsOn(r) /\ ~stayOn[r] /\ ~retVal
        /\ armed[r][1] = 0 /\ Deadline(r)[1] = 1 /\ tickAt[1] = 0
        /\ Less32(nextRelay[r], timeNow) /\ ~Due(nextRelay[r], timeNow)

\* C7 as claimed: an ID check that comes due with no PTT activity since the
\* last one sends nothing and leaves nextID exactly ID_PERIOD after the
\* deadline that expired.
C7_SkippedIdOnGrid ==
    [][(idDue' /\ ~idNeeded) => (~idSent' /\ nextID' = Add32(nextID, ID_PERIOD))]_vars

\* C7 amended: such a check sends nothing and re-arms nextID to ID_PERIOD
\* after timeNow of the run that made it, which is later than the deadline
\* that expired; only a relay auto-off in the same run re-arms it again, from
\* the moment it keyed PTT.
C7_SkippedIdRearmsFromNow ==
    [][(idDue' /\ ~idNeeded) =>
          /\ ~idSent'
          /\ Due(nextID, timeNow') /\ nextID' # Add32(nextID, ID_PERIOD)
          /\ autoOff' = {} => (nextID' = Add32(timeNow', ID_PERIOD) /\ ~idNeeded')
          /\ autoOff' # {} => (nextID' = Add32(Millis(keyedAt'), ID_PERIOD) /\ idNeeded')
    ]_vars

\* an ID check came due with nothing to identify and skipped the ID
C7_Witness ==
    /\ idDue /\ ~idSent /\ ~idNeeded /\ autoOff = {}
    /\ span = 1 /\ ticks >= 2
    /\ nextID = Add32(timeNow, ID_PERIOD)

\* C9 as claimed: a symbol heard on one poll only, silence before and after,
\* is not accepted on the silent poll that follows it and dispatches nothing.
C9_BlipAbsorbed ==
    [][(polled' /\ key' = 0 /\ key # 0 /\ heldPolls = 1) =>
          (~retVal' /\ lastKey' = lastKey)]_vars

\* C9 amended: such a symbol is accepted, once, on the silent poll that
\* follows it, and processKey dispatches it.
C9_BlipAccepted ==
    [][/\ (polled' /\ key' = 0 /\ key # 0 /\ heldPolls = 1) =>
            /\ retVal' /\ lastKey' = key /\ dtmfKey' = 0
            /\ StartsWith(tx', <<EvDelay(500)>>)
       /\ (polled' /\ key' # 0) => (~retVal' /\ lastKey' = lastKey)
    ]_vars

\* digit '2' heard on a single poll has turned relay 0 on
C9_Witness ==
    /\ retVal /\ key = 0 /\ heldPolls = 1
    /\ lastKey = Ord("2") /\ IsOn(0) /\ presses = 1

\* the characters whose pulses switch the tone on
CharSounds == [c \in Chars |-> \E i \in DOMAIN CharPulses(c) : CharPulses(c)[i] = EvTone(HIGH)]

\* PTT at level p before evs: asserts and releases alternate, characters that
\* sound are sent with PTT asserted and end with the tone off, and PTT is
\* released after the last event
RECURSIVE KeyingOk(_, _)
KeyingOk(evs, p) ==
    IF evs = <<>> THEN p = LOW
    ELSE LET e == Head(evs)
         IN  CASE e[1] = "ptt" -> e[2] # p /\ KeyingOk(Tail(evs), e[2])
               [] e[1] = "char" -> /\ CharSounds[e[2]] => (p = HIGH /\ CharTone[e[2]])
                                   /\ KeyingOk(Tail(evs), p)
               [] OTHER -> KeyingOk(Tail(evs), p)

PttAsserts(evs) == Cardinality({i \in DOMAIN evs : evs[i] = EvPtt(HIGH)})

\* the state in which the run that starts next finds every check with work to
\* do: the release of a pending key k, an open session timed out, the ID owed
\* and due, both relays on in timed mode and due
Crowded(k) ==
    [Machine EXCEPT !.nextDTMF = Millis(clock),
                    !.waitForSpace = (k # 0), !.dtmfKey = k,
                    !.cmdActive = TRUE, !.nextCmdTimeout = Millis(clock),
                    !.idNeeded = TRUE, !.nextID = Millis(clock),
                    !.relayState = [r \in Relays |-> onState[r]],
                    !.pin = [r \in Relays |-> onState[r]],
                    !.stayOn = [r \in Relays |-> FALSE],
                    !.nextRelay = [r \in Relays |-> Millis(clock)]]

\* C10: in every run of loop() PTT asserts and releases alternate, the tone
\* sounds only while PTT is asserted, and the run ends with PTT released and
\* the tone off; so does, from every reachable state, the run in which the
\* voltage report, the command timeout and both relay auto-offs fall together
\* (the report keys PTT twice).
C10_NoOverlap ==
    /\ KeyingOk(tx, LOW)
    /\ pttPin = LOW /\ tonePin = LOW
    /\ LET s == loop(Crowded(Ord("B")), AddT(clock, RunGap), 0, 236)
       IN  /\ KeyingOk(s.tx, LOW)
           /\ s.ptt = LOW /\ s.tone = LOW
           /\ PttAsserts(s.tx) = 3 + numRelays
           /\ s.autoOff = Relays /\ s.cmdTimedOut /\ s.retVal

\* one run has sent the voltage report, which keys PTT twice, while relay 0
\* was on
C10_Witness ==
    /\ retVal /\ lastKey = Ord("B")
    /\ PttAsserts(tx) = 2
    /\ IsOn(0)

----------------------------------------------------------------------------
(* Auto-off covers every relay *)

\* relay r is on in the older sketch
IsOnIno(r) == relayState[r] = onStateIno[r]

\* C11: in the older sketch, a run of loop() that accepts no key and finds the
\* auto-off deadline of a relay that is on and not held due turns that relay
\* off, for relay 0 and for relay 1 alike.
C11_EveryRelayScanned ==
    [][\A r \in Relays :
          (IsOnIno(r) /\ ~stayOn[r] /\ ~retVal' /\ Due(nextRelay[r], timeNow'))
              => (r \in autoOff' /\ relayState'[r] = offStateIno[r])]_vars

----------------------------------------------------------------------------
(* Command-session timeout *)

\* what SendMorse(toMsg) of the older sketch puts on the air
TimeoutTx ==
    <<EvDelay(1000), EvPtt(HIGH), EvDelay(500),
      EvChar(Ord("C")), EvChar(Ord("T")), EvChar(Ord("O")),
      EvDelay(500), EvPtt(LOW)>>

\* C12: in the older sketch, a run of loop() that accepts a key leaves the
\* session open with its deadline at that run's timeNow + CMD_PERIOD and
\* announces no timeout; a run that accepts none and finds an open session's
\* deadline due transmits toMsg first and closes the session; any other run
\* announces nothing and leaves the session and its deadline alone, so no
\* timeout is announced without an open session and none twice for one.
C12_SessionTimeout ==
    [][/\ retVal' =>
            /\ cmdActive'
            /\ nextCmdTimeout' = Add32(timeNow', CMD_PERIOD_INO)
            /\ ~cmdTimedOut'
       /\ (~retVal' /\ cmdActive /\ Due(nextCmdTimeout, timeNow')) =>
            /\ cmdTimedOut'
            /\ ~cmdActive'
            /\ StartsWith(tx', TimeoutTx)
       /\ (~retVal' /\ ~(cmdActive /\ Due(nextCmdTimeout, timeNow'))) =>
            /\ ~cmdTimedOut'
            /\ cmdActive' = cmdActive
            /\ nextCmdTimeout' = nextCmdTimeout]_vars

\* a session opened by a key has timed out and is closed
C12_Witness ==
    /\ cmdTimedOut
    /\ ~cmdActive
    /\ lastKey # 0
    /\ StartsWith(tx, TimeoutTx)

----------------------------------------------------------------------------
(* Acknowledgment selection *)

\* the characters sent in the events evs, in order
RECURSIVE SentChars(_)
SentChars(evs) ==
    IF evs = <<>> THEN <<>>
    ELSE (IF Head(evs)[1] = "char" THEN <<Head(evs)[2]>> ELSE <<>>)
         \o SentChars(Tail(evs))

\* the message text of an acknowledgment: what follows the prefix and the space
AckText(evs) == SubSeq(SentChars(evs), 3, Len(SentChars(evs)))

\* the acknowledgment is prefixed with the character for relay number r + 1
AckPrefixed(evs, r) ==
    /\ Len(SentChars(evs)) >= 2
    /\ SentChars(evs)[1] = r + Ord("1")
    /\ SentChars(evs)[2] = Ord(" ")

\* the events of one relay operation started in the current state
TimedAck(r) == relayOn([Machine EXCEPT !.tx = <<>>], r, FALSE).tx
HeldAck(r) == relayOn([Machine EXCEPT !.tx = <<>>], r, TRUE).tx
OffAck(r) == relayOff([Machine EXCEPT !.tx = <<>>], r).tx

\* C13: in every reachable state and for each relay r, relayOn(r, false),
\* relayOn(r, true) and relayOff(r) each write the relay pin and then key one
\* acknowledgment prefixed with the character r + '1' and a space, and the
\* three message texts are pairwise different.
C13_DistinctAcks ==
    \A r \in Relays :
        LET timed == TimedAck(r)
            held == HeldAck(r)
            off == OffAck(r)
            timedText == AckText(timed)
            heldText == AckText(held)
            offText == AckText(off)
        IN  /\ AckPrefixed(timed, r) /\ AckPrefixed(held, r) /\ AckPrefixed(off, r)
            /\ timed[1] = EvRelay(r, onState[r])
            /\ held[1] = EvRelay(r, onState[r])
            /\ off[1] = EvRelay(r, Not(onState[r]))
            /\ timedText = onMsg /\ heldText = perMsg /\ offText = offMsg
            /\ timedText # heldText /\ timedText # offText /\ heldText # offText

\* relay 0 has just been switched on held and acknowledged with "1 OFF", after
\* an earlier command; the off-acknowledgment from this state differs
C13_Witness ==
    /\ retVal /\ lastKey = Ord("3") /\ presses = 2
    /\ IsOn(0) /\ stayOn[0]
    /\ AckPrefixed(tx, 0)
    /\ AckText(tx) = perMsg
    /\ AckText(OffAck(0)) = offMsg

----------------------------------------------------------------------------
(* Transmission framing *)

\* the pin writes and delays of the events evs: a character is replaced by
\* the pulses sendChar plays for it
RECURSIVE Pulses(_)
Pulses(evs) ==
    IF evs = <<>> THEN <<>>
    ELSE (IF Head(evs)[1] = "char" THEN CharPulses(Head(evs)[2]) ELSE <<Head(evs)>>)
         \o Pulses(Tail(evs))

\* what sendChar plays for character code c: the gap alone for the gap-only
\* marker '-', else the elements of c and then the inter-character gap, which
\* is left out after a space
SoundedWithGap(c) ==
    IF c = Ord("-") THEN CharBreak
    ELSE sendElements(Elements(c))
         \o (IF c = Ord(" ") THEN <<>> ELSE CharBreak)

\* every character of text in order, each followed by its inter-character gap
RECURSIVE GapAfterEach(_)
GapAfterEach(text) ==
    IF text = <<>> THEN <<>>
    ELSE SoundedWithGap(Head(text)) \o GapAfterEach(Tail(text))

\* the same with no gap after the last character
GapExceptLast(text) ==
    IF text = <<>> THEN <<>>
    ELSE GapAfterEach(SubSeq(text, 1, Len(text) - 1))
         \o sendElements(Elements(text[Len(text)]))

\* the prefix character, its gap, and the space
PrefixPulses(prefix) ==
    IF prefix = 0 THEN <<>> ELSE GapAfterEach(<<prefix, Ord(" ")>>)

\* what follows the first n of the events evs, without the writes that leave
\* the tone pin low
IsKeying(e) == e # EvTone(LOW)
AfterBody(evs, n) == SelectSeq(SubSeq(evs, n + 1, Len(evs)), IsKeying)

\* the messages SendMorse is called with, each with its prefixes: the timeout
\* and ID messages and the voltage report's heading with none, the relay
\* acknowledgments with the relay's digit
Framed ==
    {<<toMsg, 0>>, <<idMsg, 0>>, <<vccMsg, 0>>}
    \cup {<<m, r + Ord("1")>> : m \in {onMsg, perMsg, offMsg}, r \in Relays}

FramedIno ==
    {<<toMsg, 0>>, <<idMsg, 0>>}
    \cup {<<m, r + Ord("1")>> : m \in {onMsgIno, offMsgIno}, r \in Relays}

\* C14 (as stated): a run of loop() that sends only the station ID emits PTT
\* assert, the settle delay, every character of the ID with an inter-character
\* gap after each except the last, and then, with the tone pin left low, a
\* second settle delay and the PTT release.
C14_GapExceptLastThenSettle ==
    (idSent /\ ~retVal /\ ~cmdTimedOut /\ autoOff = {}) =>
        LET p == Pulses(tx)
            body == <<EvPtt(HIGH), EvDelay(400)>> \o GapExceptLast(idMsg)
        IN  /\ Len(p) > Len(body)
            /\ SubSeq(p, 1, Len(body)) = body
            /\ AfterBody(p, Len(body)) = <<EvDelay(400), EvPtt(LOW)>>

\* C14 (amended): SendMorse emits PTT assert, the 400 ms settle delay, the
\* optional prefix character with its gap and a space, every message character
\* in order with an inter-character gap after each one that is not a space,
\* the last character included, and then releases PTT at once; a message that
\* ends in a space, as the voltage report's heading does, ends with the word
\* gap of that space.  The older sketch waits 1000 ms before the assert,
\* settles for 500 ms, and holds a second 500 ms before the release.
C14_Framing ==
    tx # <<>> =>
        /\ \A f \in Framed :
              Pulses(SendMorse([Machine EXCEPT !.tx = <<>>], f[1], f[2]).tx)
                  = <<EvPtt(HIGH), EvDelay(400)>> \o PrefixPulses(f[2])
                        \o GapAfterEach(f[1]) \o <<EvPtt(LOW)>>
        /\ \A f \in FramedIno :
              Pulses(SendMorseIno([Machine EXCEPT !.tx = <<>>], f[1], f[2]).tx)
                  = <<EvDelay(1000), EvPtt(HIGH), EvDelay(500)>> \o PrefixPulses(f[2])
                        \o GapAfterEach(f[1]) \o <<EvDelay(500), EvPtt(LOW)>>
        /\ LET v == Pulses(SendMorse([Machine EXCEPT !.tx = <<>>], vccMsg, 0).tx)
           IN  SubSeq(v, Len(v) - 4, Len(v))
                   = CharBreak \o wordBreak \o <<EvPtt(LOW)>>

\* a run has sent only the station ID: its last character is followed by the
\* inter-character gap and PTT is released right after it, with no other delay
\* in between
C14_Witness ==
    /\ idSent /\ ~retVal /\ ~cmdTimedOut /\ autoOff = {}
    /\ Pulses(tx) = <<EvPtt(HIGH), EvDelay(400)>> \o GapAfterEach(idMsg) \o <<EvPtt(LOW)>>
    /\ SubSeq(Pulses(tx), Len(Pulses(tx)) - 2, Len(Pulses(tx)))
           = CharBreak \o <<EvPtt(LOW)>>
    /\ AfterBody(Pulses(tx), Len(<<EvPtt(HIGH), EvDelay(400)>> \o GapExceptLast(idMsg)))
           = <<EvDelay(165 \div cspeed), EvPtt(LOW)>>

----------------------------------------------------------------------------
(* Empty message *)

\* evs holds no tone burst and no gap element: no character, no write of the
\* tone pin
NoToneNoGap(evs) == \A i \in DOMAIN evs : evs[i][1] \notin {"char", "tone"}

\* C15: in every reachable state, SendMorse with an empty message and no
\* prefix emits exactly PTT assert, the 400 ms settle delay and PTT release;
\* the older sketch emits its 1000 ms pause, PTT assert, its two 500 ms
\* settle delays and PTT release; neither plays a tone burst or a gap element,
\* and the tone pin is left as it was.
C15_EmptyMessage ==
    LET m == [Machine EXCEPT !.tx = <<>>]
        e == SendMorse(m, <<>>, 0)
        o == SendMorseIno(m, <<>>, 0)
    IN  /\ e.tx = <<EvPtt(HIGH), EvDelay(400), EvPtt(LOW)>>
        /\ o.tx = <<EvDelay(1000), EvPtt(HIGH), EvDelay(500), EvDelay(500), EvPtt(LOW)>>
        /\ NoToneNoGap(Pulses(e.tx)) /\ NoToneNoGap(Pulses(o.tx))
        /\ e.tone = tonePin /\ o.tone = tonePin
        /\ e.clock = AddT(clock, 400)

\* the empty message is sent from a state reached after a real transmission,
\* which did play tone bursts
C15_Witness ==
    /\ idSent
    /\ ~NoToneNoGap(Pulses(tx))
    /\ SendMorse([Machine EXCEPT !.tx = <<>>], <<>>, 0).tx
           = <<EvPtt(HIGH), EvDelay(400), EvPtt(LOW)>>

----------------------------------------------------------------------------
(* A relay is switched on only by command *)

\* every symbol the decoder can report
DtmfSymbols ==
    Unmapped \cup {Ord("1"), Ord("2"), Ord("3"), Ord("4"), Ord("5"), Ord("6"), Ord("B")}

\* the digits mapped to an on function of relay r
OnKeys(r) == {TimedKey(r), HeldKey(r)}

\* relay r is on in machine state s: its recorded state and its pin
OnIn(s, r) == s.relayState[r] = onState[r] \/ s.pin[r] = onState[r]

\* C16: relay r goes from off to on, in its recorded state or on its pin, only
\* in a run of loop() that accepts a digit mapped to an on function of r; from
\* every reachable state the command timeout, the ID check and the relay scan
\* leave an off relay off, and from every state with a key pending so does the
\* dispatch of any decoder symbol that is not an on digit of that relay; after
\* startup both relays are off.
C16_OnOnlyByCommand ==
    [][/\ \A r \in Relays :
            (~OnIn(Machine, r) /\ (IsOn(r)' \/ pin'[r] = onState[r]))
                => (retVal' /\ dtmfKey \in OnKeys(r) /\ lastKey' = dtmfKey)
       /\ ticks = 0 => \A r \in Relays : ~OnIn(Machine, r)
       /\ waitForSpace =>
            \A k \in DtmfSymbols :
                LET s == processKey([Machine EXCEPT !.dtmfKey = k], 236)
                IN  \A r \in Relays :
                        ~OnIn(Machine, r) => (OnIn(s, r) <=> k \in OnKeys(r))
       /\ \A r \in Relays : ~OnIn(Machine, r) =>
            /\ ~OnIn(cmdStep([Machine EXCEPT !.cmdActive = TRUE], Add32(nextCmdTimeout, 1)), r)
            /\ ~OnIn(idStep([Machine EXCEPT !.idNeeded = TRUE], Add32(nextID, 1)), r)
            /\ ~OnIn(relayScan(Machine, Add32(nextRelay[r], 1), 0), r)]_vars

\* relay 1 has just been switched on by its timed digit '5' while relay 0,
\* which no command addressed, is off
C16_Witness ==
    /\ retVal /\ lastKey = Ord("5")
    /\ IsOn(1) /\ pin[1] = onState[1]
    /\ ~OnIn(Machine, 0)

----------------------------------------------------------------------------
(* No early or stale auto-off *)

RelayKeys == {Ord("1"), Ord("2"), Ord("3"), Ord("4"), Ord("5"), Ord("6")}

\* in machine state s, every relay that is on and not held has the deadline
\* its latest timed-on command armed
ArmedIn(s) ==
    \A r \in Relays :
        (s.relayState[r] = onState[r] /\ ~s.stayOn[r])
            => s.nextRelay[r] = Millis(AddT(s.armed[r], RELAY_PERIOD))

\* C17: a run of loop() turns relay r off automatically only if r was on and
\* not held and the run starts strictly more than RELAY_PERIOD after the
\* latest timed-on command for r armed the deadline; a run that accepts the
\* timed-on digit of r arms the deadline anew, RELAY_PERIOD after the end of
\* its acknowledgment, and does not turn r off; at the end of every run, and
\* after dispatching any further relay digit from any state with a key
\* pending, a relay that is on and not held has the deadline of its latest
\* timed-on command.
C17_NoEarlyOrStaleOff ==
    [][/\ \A r \in autoOff' :
            /\ IsOn(r) /\ ~stayOn[r]
            /\ armed'[r] = armed[r]
            /\ LessT(AddT(armed[r], RELAY_PERIOD), tickAt')
            /\ ~(retVal' /\ dtmfKey = TimedKey(r))
       /\ \A r \in Relays : (retVal' /\ dtmfKey = TimedKey(r)) =>
            /\ LessT(tickAt', armed'[r])
            /\ IsOn(r)' /\ ~stayOn'[r]
            /\ nextRelay'[r] = Millis(AddT(armed'[r], RELAY_PERIOD))
       /\ \A r \in Relays :
            (IsOn(r)' /\ ~stayOn'[r])
                => nextRelay'[r] = Millis(AddT(armed'[r], RELAY_PERIOD))
       /\ waitForSpace =>
            \A k \in RelayKeys :
                LET s == processKey([Machine EXCEPT !.dtmfKey = k], 236)
                IN  /\ ArmedIn(s)
                    /\ \A r \in Relays : k = TimedKey(r) => s.armed[r] = s.clock]_vars

\* after two commands relay 0 is on in timed mode later than RELAY_PERIOD after
\* boot, with the deadline its latest timed-on command armed still ahead
C17_Witness ==
    /\ retVal /\ lastKey = Ord("2") /\ presses = 2
    /\ IsOn(0) /\ ~stayOn[0]
    /\ LessT(<<0, 0, RELAY_PERIOD>>, tickAt)
    /\ LessT(tickAt, armed[0])
    /\ nextRelay[0] = Millis(AddT(armed[0], RELAY_PERIOD))

----------------------------------------------------------------------------
(* The ID does not re-trigger itself *)

\* what SendMorse(idMsg) puts on the air
IdTx ==
    <<EvPtt(HIGH), EvDelay(400)>>
    \o [i \in DOMAIN idMsg |-> EvChar(idMsg[i])]
    \o <<EvPtt(LOW)>>

\* key input has stopped and every timed relay has expired: no key is pending,
\* no relay is on in timed mode and no command session is open
Quiet ==
    /\ ~waitForSpace /\ dtmfKey = 0
    /\ \A r \in Relays : ~(IsOn(r) /\ ~stayOn[r])
    /\ ~cmdActive

\* C18: a run of loop() that accepts no key and finds the ID deadline due with
\* idNeeded set transmits the ID and, unless its relay scan then keys an
\* off-acknowledgment, ends with idNeeded false and the next check ID_PERIOD
\* after its timeNow; once the program is quiet, a run that hears no key sends
\* either nothing or, if an ID was owed, exactly the ID, clearing idNeeded, and
\* leaves the program quiet; with no ID owed it sends nothing at all.
C18_IdClearsItself ==
    [][/\ (~retVal' /\ idNeeded /\ Due(nextID, timeNow')) =>
            /\ idSent'
            /\ StartsWith(tx', IdTx)
            /\ autoOff' = {} => (~idNeeded' /\ nextID' = Add32(timeNow', ID_PERIOD))
       /\ (Quiet /\ (polled' => key' = 0)) =>
            /\ Quiet'
            /\ ~idNeeded => (tx' = <<>> /\ ~idNeeded' /\ ~idSent')
            /\ idNeeded => \/ tx' = <<>> /\ idNeeded' /\ ~idSent'
                           \/ tx' = IdTx /\ ~idNeeded' /\ idSent']_vars

\* after a command and the ID it made owed, a run has passed in silence: the
\* program is quiet, owes no ID and has sent nothing
C18_Witness ==
    /\ lastKey # 0 /\ presses >= 1
    /\ Quiet /\ ~idNeeded
    /\ polled /\ key = 0 /\ ~idSent
    /\ tx = <<>>

----------------------------------------------------------------------------
(* Startup identification *)

\* the run of loop() that starts at tickAt is later than startup
AfterStartup(t) == \A b \in BootMs : LessT(<<0, 0, b>>, t)

\* C19: as long as no key has been heard since setup(), a run of loop() sends
\* the station ID exactly if none has been sent yet and the run starts
\* strictly later than the startup time, it then sends the ID and nothing
\* else, any other run sends nothing, and both relays stay off; a run that
\* starts in the millisecond in which setup() read the counter sends nothing
\* and leaves the ID owed.
C19_StartupId ==
    [][presses' = 0 =>
          /\ idSent' <=> (idNeeded /\ AfterStartup(tickAt'))
          /\ idSent' => (tx' = IdTx /\ ~idNeeded')
          /\ ~idSent' => (tx' = <<>> /\ idNeeded' = idNeeded)
          /\ \A r \in Relays : ~IsOn(r)' /\ pin'[r] = Not(onState[r])
          /\ ticks = 0 =>
                LET s == loop(Machine, clock, 0, 236)
                IN  s.tx = <<>> /\ s.idNeeded /\ ~s.idSent /\ ~s.idDue]_vars

\* with no key heard since setup() the ID has been sent in an earlier run and
\* a later run has sent nothing
C19_Witness ==
    /\ presses = 0 /\ lastKey = 0
    /\ ticks >= 2
    /\ ~idNeeded /\ ~idSent
    /\ tx = <<>>
    /\ \A r \in Relays : ~IsOn(r)

----------------------------------------------------------------------------
(* Pending-key invariant *)

\* C20: before and after every run of loop(), dtmfKey is nonzero exactly when
\* waitForSpace is true; a run that polls silence while a key is pending
\* always reports the key accepted; a run that reports a key accepted
\* dispatches the pending key to processKey, which transmits, and ends with
\* dtmfKey zero and waitForSpace false; a run that does not leaves the pending
\* key as it was unless it hears a new one.
C20_PendingKey ==
    [][/\ (dtmfKey # 0) <=> waitForSpace
       /\ (dtmfKey' # 0) <=> waitForSpace'
       /\ (waitForSpace /\ polled' /\ key' = 0) => retVal'
       /\ retVal' =>
            /\ waitForSpace /\ polled' /\ key' = 0
            /\ lastKey' = dtmfKey
            /\ dtmfKey' = 0 /\ ~waitForSpace'
            /\ tx' # <<>>
       /\ (~retVal' /\ waitForSpace) => (dtmfKey' = dtmfKey /\ lastKey' = lastKey)
       /\ (~retVal' /\ ~waitForSpace) =>
            (dtmfKey' = IF polled' THEN key' ELSE 0)]_vars

\* a second key is pending after the first one was accepted and cleared
C20_Witness ==
    /\ lastKey = Ord("1")
    /\ dtmfKey = Ord("2") /\ waitForSpace
    /\ presses = 2
    /\ ~retVal

----------------------------------------------------------------------------
(* Latched symbol *)

\* C21: the poll that first hears a symbol saves it; a later poll of the same
\* press that hears a symbol, the same or another, leaves the saved symbol in
\* place, reports nothing and dispatches nothing; the poll that hears the
\* release dispatches the saved symbol, also when the poll before it heard a
\* different one, and that is the only key dispatched for the press.
C21_LatchedSymbol ==
    [][/\ (~waitForSpace /\ polled' /\ key' # 0) =>
            (dtmfKey' = key' /\ waitForSpace' /\ ~retVal' /\ heldPolls' = 1)
       /\ (waitForSpace /\ polled' /\ key' # 0) =>
            /\ dtmfKey' = dtmfKey /\ waitForSpace'
            /\ ~retVal' /\ lastKey' = lastKey
            /\ heldPolls' = heldPolls + 1
       /\ (waitForSpace /\ polled' /\ key' = 0) =>
            /\ retVal' /\ lastKey' = dtmfKey
            /\ (key # dtmfKey => lastKey' # key)
            /\ dtmfKey' = 0 /\ ~waitForSpace'
       /\ (~waitForSpace /\ polled' /\ key' = 0) => (~retVal' /\ lastKey' = lastKey)
       /\ ~polled' => (~retVal' /\ dtmfKey' = dtmfKey /\ lastKey' = lastKey)]_vars

\* the second poll of a press has heard 'C' while '1' was saved: '1' is still
\* the pending key and nothing has been dispatched
C21_Witness ==
    /\ waitForSpace /\ dtmfKey = Ord("1")
    /\ polled /\ key = Ord("C") /\ heldPolls = 2
    /\ ~retVal /\ lastKey = 0

----------------------------------------------------------------------------
(* Output/state agreement *)

\* the levels written to the pin of relay r in the events evs, in order
RECURSIVE RelayWrites(_, _)
RelayWrites(evs, r) ==
    IF evs = <<>> THEN <<>>
    ELSE (IF Head(evs)[1] = "relay" /\ Head(evs)[2] = r THEN <<Head(evs)[3]>> ELSE <<>>)
         \o RelayWrites(Tail(evs), r)

\* in machine state s the pin of relay r is at its on level exactly when the
\* recorded state says on
AgreeIn(s, r) == (s.pin[r] = onState[r]) <=> (s.relayState[r] = onState[r])

\* C22: before and after every run of loop(), for every relay r, the pin is at
\* the on level exactly when relayState[r] equals onState[r]; a run changes the
\* pin of r exactly when it changes relayState[r], the pin ends at the level
\* the run wrote last, and a run that writes nothing to the pin leaves both
\* alone; from every reachable state relayOn(r) and relayOff(r) write the pin
\* once and leave pin and recorded state at the same level.
C22_PinMatchesState ==
    [][\A r \in Relays :
          LET w == RelayWrites(tx', r)
              on == relayOn([Machine EXCEPT !.tx = <<>>], r, FALSE)
              held == relayOn([Machine EXCEPT !.tx = <<>>], r, TRUE)
              off == relayOff([Machine EXCEPT !.tx = <<>>], r)
          IN  /\ AgreeIn(Machine, r)
              /\ (pin'[r] = onState[r]) <=> IsOn(r)'
              /\ (pin'[r] # pin[r]) <=> (relayState'[r] # relayState[r])
              /\ w # <<>> => (pin'[r] = w[Len(w)] /\ relayState'[r] = w[Len(w)])
              /\ w = <<>> => (pin'[r] = pin[r] /\ relayState'[r] = relayState[r])
              /\ on.pin[r] = onState[r] /\ on.relayState[r] = onState[r]
              /\ held.pin[r] = onState[r] /\ held.relayState[r] = onState[r]
              /\ off.pin[r] = Not(onState[r]) /\ off.relayState[r] = Not(onState[r])
              /\ RelayWrites(on.tx, r) = <<onState[r]>>
              /\ RelayWrites(held.tx, r) = <<onState[r]>>
              /\ RelayWrites(off.tx, r) = <<Not(onState[r])>>]_vars

\* the relay scan has just switched relay 0 off after its period: the pin was
\* written to the off level and the recorded state says off, while relay 1 is
\* on with its pin at the on level
C22_Witness ==
    /\ 0 \in autoOff
    /\ RelayWrites(tx, 0) = <<Not(onState[0])>>
    /\ pin[0] = Not(onState[0]) /\ ~IsOn(0)
    /\ IsOn(1) /\ pin[1] = onState[1]

====
